---- MODULE Spec2Model ----
(***************************************************************************)
(* Model of streamlit-app.py: the hybrid RAG pipeline that queries a       *)
(* vector and a graph knowledge base, formats both result lists, and asks  *)
(* a hosted model for a unified answer.                                    *)
(*                                                                         *)
(* Text is a sequence of string pieces (the pieces an f-string joins);     *)
(* numbers are rendered digit by digit.  A score is an integer number of   *)
(* ten-thousandths; the modelled scores are multiples of 1/16, which a     *)
(* binary float holds exactly, so that ".3f" rounds them half-to-even.     *)
(* An external call is issued (it is then in flight) and later answered by *)
(* the service with a response or a raised exception.                      *)
(***************************************************************************)
EXTENDS Integers, Sequences, FiniteSets, TLC

VARIABLES
    pc,                 \* position of the running function
    VECTOR_KB_ID,       \* module global
    GRAPH_KB_ID,        \* module global
    query_text,         \* hybrid_rag_query: parameter
    vector_results,     \* hybrid_rag_query: local
    graph_results,      \* hybrid_rag_query: local
    vector_context,     \* combine_and_generate_response: local
    graph_context,      \* combine_and_generate_response: local
    synthesis_prompt,   \* combine_and_generate_response: local
    unified_response,   \* hybrid_rag_query: local
    result,             \* the dict hybrid_rag_query returned
    call_args,          \* arguments of a direct call of a helper function
    call_ret,           \* value a direct call of a helper function returned
    calls,              \* every external request issued, in order
    replies,            \* every answer of an external service, in order
    inflight            \* external requests issued and not yet answered

globalVars == <<VECTOR_KB_ID, GRAPH_KB_ID>>
hybridVars == <<query_text, vector_results, graph_results, vector_context,
                graph_context, synthesis_prompt, unified_response, result>>
directVars == <<call_args, call_ret>>
serviceVars == <<calls, replies, inflight>>
vars == <<pc, globalVars, hybridVars, directVars, serviceVars>>

----------------------------------------------------------------------------
(* Bounds of the model *)

\* longest result list a knowledge base answers with
MaxResults == 2
\* longest result list handed to format_retrieval_results directly
MaxFormatLen == 2

Queries ==
    {"ping", "neptune",
     "What are the differences between neptune databases and Neptune analytics"}
KbIds == {"KXZ6KMQQUP", "9GX3SMFMMH", "NOSUCHKB"}
Labels == {"Vector", "Graph", "Other"}
Exceptions == {"ClientError", "ReadTimeoutError"}
ModelOutputs == {"unified answer", ""}

\* content.text values and scores (ten-thousandths: 0.0, 1/16, 3/16, 1/2, 1.0)
Texts == {"", "doc a"}
Scores == {0, 625, 1875, 5000, 10000}

\* a result item is a dict; content, content.text and score may be absent
Contents == {[text |-> t] : t \in Texts} \cup {[type |-> "IMAGE"]}
FormatItems ==
    {[content |-> c, score |-> s] : c \in Contents, s \in Scores}
        \cup {[content |-> c] : c \in Contents}
        \cup {[score |-> s] : s \in Scores}
        \cup {[location |-> "s3"]}

\* the items the knowledge bases of the pipeline answer with
KbItems == {[content |-> [text |-> "doc a"], score |-> 1875],
            [content |-> [text |-> "doc b"], score |-> 5000],
            [content |-> [type |-> "IMAGE"]]}

SeqsUpTo(S, n) == UNION {[1..k -> S] : k \in 0..n}

----------------------------------------------------------------------------
(* Python values *)

\* dict.get(k, default)
Get(d, k, default) == IF k \in DOMAIN d THEN d[k] ELSE default

\* how a call ends
Return(v) == [tag |-> "return", value |-> v]
Raise(e) == [tag |-> "raise", exc |-> e]

Digit(d) ==
    CASE d = 0 -> "0" [] d = 1 -> "1" [] d = 2 -> "2" [] d = 3 -> "3"
      [] d = 4 -> "4" [] d = 5 -> "5" [] d = 6 -> "6" [] d = 7 -> "7"
      [] d = 8 -> "8" [] d = 9 -> "9"

\* str(n) of a natural number, one piece per digit
RECURSIVE Decimal(_)
Decimal(n) ==
    IF n < 10 THEN <<Digit(n)>> ELSE Decimal(n \div 10) \o <<Digit(n % 10)>>

\* the thousandths nearest to a score, ties to the even one
RoundThousandths(score) ==
    LET q == score \div 10
        r == score % 10
    IN  IF r > 5 \/ (r = 5 /\ q % 2 = 1) THEN q + 1 ELSE q

\* f"{score:.3f}" of a score that is not negative
Format3f(score) ==
    LET m == RoundThousandths(score)
    IN  Decimal(m \div 1000)
            \o <<".", Digit((m \div 100) % 10), Digit((m \div 10) % 10),
                 Digit(m % 10)>>

----------------------------------------------------------------------------
(* The external services *)

\* the request of bedrock_agent_runtime.retrieve
RetrieveRequest(query, kb_id) ==
    [api |-> "retrieve",
     knowledgeBaseId |-> kb_id,
     retrievalQuery |-> [text |-> query],
     retrievalConfiguration |->
         [vectorSearchConfiguration |-> [numberOfResults |-> 5]]]

\* the request of llm.invoke
InvokeRequest(prompt) == [api |-> "invoke", prompt |-> prompt]

\* what the retrieval service may answer: a response with or without its
\* result list, or a raised exception
RetrieveResponses ==
    {[ResponseMetadata |-> "200", retrievalResults |-> l] :
        l \in SeqsUpTo(KbItems, MaxResults)}
        \cup {[ResponseMetadata |-> "200"]}
RetrieveReplies ==
    {Return(r) : r \in RetrieveResponses} \cup {Raise(e) : e \in Exceptions}

\* what the model may answer
InvokeReplies ==
    {Return([content |-> c]) : c \in ModelOutputs}
        \cup {Raise(e) : e \in Exceptions}

----------------------------------------------------------------------------
(* The functions of the script *)

\* retrieve_from_kb without its try/except: the exception propagates
retrieve_from_kb_NoCatch(query, kb_id, reply) ==
    IF reply.tag = "raise"
    THEN reply
    ELSE Return(Get(reply.value, "retrievalResults", <<>>))

\* retrieve_from_kb reading a key the response does not have
retrieve_from_kb_WrongKey(query, kb_id, reply) ==
    IF reply.tag = "raise"
    THEN Return(<<>>)
    ELSE Return(Get(reply.value, "results", <<>>))

\* retrieve_from_kb, given the service's answer to its request
retrieve_from_kb(query, kb_id, reply) ==
    IF reply.tag = "raise"
    THEN Return(<<>>)
    ELSE Return(Get(reply.value, "retrievalResults", <<>>))

\* an entry numbered by enumerate(results) instead of enumerate(results, 1)
FormatEntry_ZeroBased(idx, item) ==
    LET content == Get(Get(item, "content", <<>>), "text", "")
        score == Get(item, "score", 0)
    IN  <<"\n">> \o Decimal(idx - 1) \o <<". (Score: ">> \o Format3f(score)
            \o <<")\n", content, "\n">>

\* one numbered entry of the formatted text
FormatEntry(idx, item) ==
    LET content == Get(Get(item, "content", <<>>), "text", "")
        score == Get(item, "score", 0)
    IN  <<"\n">> \o Decimal(idx) \o <<". (Score: ">> \o Format3f(score)
            \o <<")\n", content, "\n">>

RECURSIVE FormatEntries(_, _)
FormatEntries(results, n) ==
    IF n = 0 THEN <<>>
    ELSE FormatEntries(results, n - 1) \o FormatEntry(n, results[n])

\* format_retrieval_results without its test for an empty list
format_retrieval_results_NoEmptyCase(results, source_type) ==
    <<"\n--- ", source_type, " Knowledge Base Results ---\n">>
        \o FormatEntries(results, Len(results))

format_retrieval_results(results, source_type) ==
    IF results = <<>>
    THEN <<"No results found from ", source_type, " knowledge base.">>
    ELSE <<"\n--- ", source_type, " Knowledge Base Results ---\n">>
            \o FormatEntries(results, Len(results))

\* formatting that gives up on both sources when either list is empty
FormatContexts_JointDegrade(vresults, gresults) ==
    IF vresults = <<>> \/ gresults = <<>>
    THEN [vector |-> format_retrieval_results(<<>>, "Vector"),
          graph |-> format_retrieval_results(<<>>, "Graph")]
    ELSE [vector |-> format_retrieval_results(vresults, "Vector"),
          graph |-> format_retrieval_results(gresults, "Graph")]

\* the two formatted blocks of combine_and_generate_response
FormatContexts(vresults, gresults) ==
    [vector |-> format_retrieval_results(vresults, "Vector"),
     graph |-> format_retrieval_results(gresults, "Graph")]

PromptHead ==
    "You are an AI assistant tasked with answering questions using information from two different knowledge sources:\n1. A vector-based knowledge base (semantic search results)\n2. A graph-based knowledge base (relationship and entity-focused results)\n\nUser Question: "

PromptTail ==
    "\n\nInstructions:\n- Synthesize the information from both knowledge bases\n- Provide a comprehensive, coherent answer that combines the best insights from both sources\n- If there are complementary details, integrate them seamlessly\n- If there are contradictions, acknowledge them and provide the most accurate information\n- Cite which source (Vector KB or Graph KB) specific information comes from when relevant\n- Be concise but thorough\n\nProvide your unified answer below:"

\* the prompt with the two blocks in the other order
SynthesisPrompt_GraphFirst(query, vcontext, gcontext) ==
    <<PromptHead, query, "\n\n">> \o gcontext \o <<"\n\n">> \o vcontext
        \o <<PromptTail>>

\* the f-string of combine_and_generate_response
SynthesisPrompt(query, vcontext, gcontext) ==
    <<PromptHead, query, "\n\n">> \o vcontext \o <<"\n\n">> \o gcontext
        \o <<PromptTail>>

\* the except branch returning the exception's text
generate_response_ErrorText(reply) ==
    IF reply.tag = "raise"
    THEN Return(reply.exc)
    ELSE Return(reply.value.content)

\* the try block of combine_and_generate_response, given the model's answer
generate_response(reply) ==
    IF reply.tag = "raise"
    THEN Return("Error generating unified response.")
    ELSE Return(reply.value.content)

\* the dict with the graph count taken from the vector list
QueryOutcome_CopiedCount(query, vresults, gresults, response) ==
    [query |-> query,
     vector_results_count |-> Len(vresults),
     graph_results_count |-> Len(vresults),
     unified_response |-> response,
     raw_vector_results |-> vresults,
     raw_graph_results |-> gresults]

\* the dict hybrid_rag_query returns
QueryOutcome(query, vresults, gresults, response) ==
    [query |-> query,
     vector_results_count |-> Len(vresults),
     graph_results_count |-> Len(gresults),
     unified_response |-> response,
     raw_vector_results |-> vresults,
     raw_graph_results |-> gresults]

----------------------------------------------------------------------------
(* Steps *)

Issue(request) ==
    /\ calls' = Append(calls, request)
    /\ inflight' = inflight \cup {request}
    /\ UNCHANGED replies

Answer(request, reply) ==
    /\ replies' = Append(replies, reply)
    /\ inflight' = inflight \ {request}
    /\ UNCHANGED calls

\* hybrid_rag_query issuing both retrieve calls at once
HybridCall_Concurrent(q) ==
    /\ pc = "idle"
    /\ query_text' = q
    /\ calls' = calls \o <<RetrieveRequest(q, VECTOR_KB_ID),
                            RetrieveRequest(q, GRAPH_KB_ID)>>
    /\ inflight' = inflight \cup {RetrieveRequest(q, VECTOR_KB_ID),
                                   RetrieveRequest(q, GRAPH_KB_ID)}
    /\ pc' = "retrieving_vector"
    /\ UNCHANGED <<globalVars, vector_results, graph_results, vector_context,
                   graph_context, synthesis_prompt, unified_response, result,
                   directVars, replies>>

\* hybrid_rag_query is called: up to the retrieve call of the vector KB
HybridCall(q) ==
    /\ pc = "idle"
    /\ query_text' = q
    /\ Issue(RetrieveRequest(q, VECTOR_KB_ID))
    /\ pc' = "retrieving_vector"
    /\ UNCHANGED <<globalVars, vector_results, graph_results, vector_context,
                   graph_context, synthesis_prompt, unified_response, result,
                   directVars>>

\* a vector retrieval that is issued again after it failed
VectorReturn_Retry(reply) ==
    /\ pc = "retrieving_vector"
    /\ IF reply.tag = "raise"
       THEN /\ replies' = Append(replies, reply)
            /\ calls' =
                   Append(calls, RetrieveRequest(query_text, VECTOR_KB_ID))
            /\ UNCHANGED <<inflight, vector_results, pc>>
       ELSE /\ vector_results' = Get(reply.value, "retrievalResults", <<>>)
            /\ replies' = Append(replies, reply)
            /\ calls' =
                   Append(calls, RetrieveRequest(query_text, GRAPH_KB_ID))
            /\ inflight' =
                   (inflight \ {RetrieveRequest(query_text, VECTOR_KB_ID)})
                       \cup {RetrieveRequest(query_text, GRAPH_KB_ID)}
            /\ pc' = "retrieving_graph"
    /\ UNCHANGED <<globalVars, query_text, graph_results, vector_context,
                   graph_context, synthesis_prompt, unified_response, result,
                   directVars>>

\* the vector KB answers: up to the retrieve call of the graph KB
VectorReturn(reply) ==
    /\ pc = "retrieving_vector"
    /\ LET r == retrieve_from_kb(query_text, VECTOR_KB_ID, reply)
       IN  IF r.tag = "raise"
           THEN /\ pc' = "raised"
                /\ Answer(RetrieveRequest(query_text, VECTOR_KB_ID), reply)
                /\ UNCHANGED vector_results
           ELSE /\ vector_results' = r.value
                /\ replies' = Append(replies, reply)
                /\ calls' =
                       Append(calls, RetrieveRequest(query_text, GRAPH_KB_ID))
                /\ inflight' =
                       (inflight \ {RetrieveRequest(query_text, VECTOR_KB_ID)})
                           \cup {RetrieveRequest(query_text, GRAPH_KB_ID)}
                /\ pc' = "retrieving_graph"
    /\ UNCHANGED <<globalVars, query_text, graph_results, vector_context,
                   graph_context, synthesis_prompt, unified_response, result,
                   directVars>>

\* the graph KB answers: both lists are formatted, the prompt is built, up to
\* the invoke call of the model
GraphReturn(reply) ==
    /\ pc = "retrieving_graph"
    /\ LET r == retrieve_from_kb(query_text, GRAPH_KB_ID, reply)
       IN  IF r.tag = "raise"
           THEN /\ pc' = "raised"
                /\ Answer(RetrieveRequest(query_text, GRAPH_KB_ID), reply)
                /\ UNCHANGED <<graph_results, vector_context, graph_context,
                               synthesis_prompt>>
           ELSE LET contexts == FormatContexts(vector_results, r.value)
                    vc == contexts.vector
                    gc == contexts.graph
                    prompt == SynthesisPrompt(query_text, vc, gc)
                IN  /\ graph_results' = r.value
                    /\ vector_context' = vc
                    /\ graph_context' = gc
                    /\ synthesis_prompt' = prompt
                    /\ replies' = Append(replies, reply)
                    /\ calls' = Append(calls, InvokeRequest(prompt))
                    /\ inflight' =
                           (inflight
                               \ {RetrieveRequest(query_text, GRAPH_KB_ID)})
                               \cup {InvokeRequest(prompt)}
                    /\ pc' = "generating"
    /\ UNCHANGED <<globalVars, query_text, vector_results, unified_response,
                   result, directVars>>

\* the model answers: hybrid_rag_query returns its dict
InvokeReturn(reply) ==
    /\ pc = "generating"
    /\ LET r == generate_response(reply)
       IN  IF r.tag = "raise"
           THEN /\ pc' = "raised"
                /\ UNCHANGED <<unified_response, result>>
           ELSE /\ unified_response' = r.value
                /\ result' = QueryOutcome(query_text, vector_results,
                                          graph_results, r.value)
                /\ pc' = "returned"
    /\ Answer(InvokeRequest(synthesis_prompt), reply)
    /\ UNCHANGED <<globalVars, query_text, vector_results, graph_results,
                   vector_context, graph_context, synthesis_prompt, directVars>>

----------------------------------------------------------------------------
(* A direct call of retrieve_from_kb(query, kb_id) *)

RetrieveCall ==
    /\ pc = "retrieve_called"
    /\ Issue(RetrieveRequest(call_args.query, call_args.kb_id))
    /\ pc' = "retrieve_waiting"
    /\ UNCHANGED <<globalVars, hybridVars, directVars>>

RetrieveReturn(reply) ==
    /\ pc = "retrieve_waiting"
    /\ LET r == retrieve_from_kb(call_args.query, call_args.kb_id, reply)
       IN  IF r.tag = "raise"
           THEN pc' = "raised" /\ UNCHANGED call_ret
           ELSE pc' = "retrieve_returned" /\ call_ret' = r.value
    /\ Answer(RetrieveRequest(call_args.query, call_args.kb_id), reply)
    /\ UNCHANGED <<globalVars, hybridVars, call_args>>

(* A direct call of format_retrieval_results(results, source_type) *)

FormatReturn ==
    /\ pc = "format_called"
    /\ call_ret' =
           format_retrieval_results(call_args.results, call_args.source_type)
    /\ pc' = "format_returned"
    /\ UNCHANGED <<globalVars, hybridVars, call_args, serviceVars>>

----------------------------------------------------------------------------
(* Specifications *)

InitCommon ==
    /\ VECTOR_KB_ID = "KXZ6KMQQUP"
    /\ GRAPH_KB_ID = "9GX3SMFMMH"
    /\ query_text = ""
    /\ vector_results = <<>>
    /\ graph_results = <<>>
    /\ vector_context = <<>>
    /\ graph_context = <<>>
    /\ synthesis_prompt = <<>>
    /\ unified_response = ""
    /\ result = <<>>
    /\ call_ret = <<>>
    /\ calls = <<>>
    /\ replies = <<>>
    /\ inflight = {}

\* one run of hybrid_rag_query
Init ==
    /\ InitCommon
    /\ pc = "idle"
    /\ call_args = <<>>

Next ==
    \/ \E q \in Queries : HybridCall(q)
    \/ \E reply \in RetrieveReplies : VectorReturn(reply)
    \/ \E reply \in RetrieveReplies : GraphReturn(reply)
    \/ \E reply \in InvokeReplies : InvokeReturn(reply)

Spec == Init /\ [][Next]_vars

\* one call of retrieve_from_kb with any query and knowledge-base id
RetrieveInit ==
    /\ InitCommon
    /\ pc = "retrieve_called"
    /\ call_args \in [query : Queries, kb_id : KbIds]

RetrieveNext ==
    \/ RetrieveCall
    \/ \E reply \in RetrieveReplies : RetrieveReturn(reply)

RetrieveSpec == RetrieveInit /\ [][RetrieveNext]_vars

\* one call of format_retrieval_results with any result list and label
FormatInit ==
    /\ InitCommon
    /\ pc = "format_called"
    /\ call_args \in
           [results : SeqsUpTo(FormatItems, MaxFormatLen), source_type : Labels]

FormatNext == FormatReturn

FormatSpec == FormatInit /\ [][FormatNext]_vars

----------------------------------------------------------------------------
(* Vocabulary of the properties *)

\* the result list a service answer carries: none when the call raised or the
\* response has no list
ServiceList(reply) ==
    IF reply.tag = "return" /\ "retrievalResults" \in DOMAIN reply.value
    THEN reply.value.retrievalResults
    ELSE <<>>

Fallback == "Error generating unified response."

EmptySentence(label) == <<"No results found from ", label, " knowledge base.">>

Header(label) == <<"\n--- ", label, " Knowledge Base Results ---\n">>

DigitPieces == {"0", "1", "2", "3", "4", "5", "6", "7", "8", "9"}

DigitValue(s) == CHOOSE d \in 0..9 : Digit(d) = s

\* the score and the text an item carries, with the defaults for absent keys
ItemScore(item) == IF "score" \in DOMAIN item THEN item.score ELSE 0
ItemText(item) ==
    IF "content" \in DOMAIN item /\ "text" \in DOMAIN item.content
    THEN item.content.text
    ELSE ""

\* the eleven pieces of the i-th entry of a formatted text (i below 10)
EntryAt(t, i) == SubSeq(t, 11 * i - 7, 11 * i + 3)

\* entry e is numbered i and shows item's score, to the nearest thousandth
\* with three decimals, and item's text
EntryShows(e, i, item) ==
    /\ e[1] = "\n" /\ e[2] = Digit(i) /\ e[3] = ". (Score: "
    /\ e[5] = "." /\ e[9] = ")\n" /\ e[11] = "\n"
    /\ {e[4], e[6], e[7], e[8]} \subseteq DigitPieces
    /\ LET shown == 1000 * DigitValue(e[4]) + 100 * DigitValue(e[6])
                        + 10 * DigitValue(e[7]) + DigitValue(e[8])
           d == 10 * shown - ItemScore(item)
       IN  -5 <= d /\ d <= 5
    /\ e[10] = ItemText(item)

\* text t is the header of label followed by one entry per item, in order
ListsItems(t, label, items) ==
    /\ Len(t) = 3 + 11 * Len(items)
    /\ SubSeq(t, 1, 3) = Header(label)
    /\ \A i \in 1..Len(items) : EntryShows(EntryAt(t, i), i, items[i])

RetrieveCallsTo(kb) ==
    Cardinality({i \in DOMAIN calls :
        calls[i].api = "retrieve" /\ calls[i].knowledgeBaseId = kb})

InvokeCalls == Cardinality({i \in DOMAIN calls : calls[i].api = "invoke"})

\* block b stands in text p at position j
BlockAt(p, j, b) == j + Len(b) - 1 <= Len(p) /\ SubSeq(p, j, j + Len(b) - 1) = b

OutcomeKeys ==
    {"query", "vector_results_count", "graph_results_count",
     "unified_response", "raw_vector_results", "raw_graph_results"}

----------------------------------------------------------------------------
(* Properties *)

\* C1: hybrid_rag_query never raises. Whatever the three external calls do
\* (answer or raise), no exception leaves the function, the run can go on
\* whenever a call is answered, and the dict it returns has an empty list
\* for each retrieval that raised and the fallback text for a generation
\* that raised.
C1_NeverRaises ==
    /\ pc # "raised"
    /\ pc \in {"retrieving_vector", "retrieving_graph", "generating"}
           => ENABLED Next
    /\ pc = "returned" =>
        /\ DOMAIN result = OutcomeKeys
        /\ replies[1].tag = "raise" =>
               result.raw_vector_results = <<>>
                   /\ result.vector_results_count = 0
        /\ replies[2].tag = "raise" =>
               result.raw_graph_results = <<>>
                   /\ result.graph_results_count = 0
        /\ replies[3].tag = "raise" => result.unified_response = Fallback

\* C1 witness: a run in which all three calls raised has returned
C1_Witness ==
    /\ pc = "returned"
    /\ \A i \in 1..3 : replies[i].tag = "raise"

\* C2: retrieve_from_kb is fail-soft. For any query and knowledge-base id,
\* a raised service call gives the caller an empty sequence and no
\* exception; an answered call gives the response's result list (the empty
\* sequence when the response carries none).
C2_RetrieveFailSoft ==
    /\ pc # "raised"
    /\ Len(replies) = 1 => pc = "retrieve_returned"
    /\ pc = "retrieve_returned" =>
        /\ replies[1].tag = "raise" => call_ret = <<>>
        /\ (replies[1].tag = "return"
                /\ "retrievalResults" \in DOMAIN replies[1].value)
               => call_ret = replies[1].value.retrievalResults
        /\ (replies[1].tag = "return"
                /\ "retrievalResults" \notin DOMAIN replies[1].value)
               => call_ret = <<>>

\* C2 witness: a call for an unknown knowledge base raised and returned
C2_Witness ==
    /\ pc = "retrieve_returned"
    /\ call_args.kb_id = "NOSUCHKB"
    /\ replies[1].tag = "raise"
    /\ call_ret = <<>>

\* C3: when the three calls are answered, the returned dict has the counts
\* of the two result lists, the model's output, the input query and the two
\* lists as retrieved.
C3_SuccessOutcome ==
    (pc = "returned" /\ \A i \in 1..3 : replies[i].tag = "return") =>
        /\ calls[1].retrievalQuery.text = result.query
        /\ result.query = query_text
        /\ result.vector_results_count = Len(ServiceList(replies[1]))
        /\ result.graph_results_count = Len(ServiceList(replies[2]))
        /\ result.unified_response = replies[3].value.content
        /\ result.raw_vector_results = ServiceList(replies[1])
        /\ result.raw_graph_results = ServiceList(replies[2])

\* C3 witness: all answered, two vector items and one graph item
C3_Witness ==
    /\ pc = "returned"
    /\ \A i \in 1..3 : replies[i].tag = "return"
    /\ Len(ServiceList(replies[1])) = 2
    /\ Len(ServiceList(replies[2])) = 1
    /\ result.unified_response = "unified answer"

\* C4: for every label, format_retrieval_results of an empty list is the
\* fixed sentence naming the label and nothing else.
C4_FormatEmpty ==
    (pc = "format_returned" /\ call_args.results = <<>>) =>
        call_ret = <<"No results found from ", call_args.source_type,
                     " knowledge base.">>

\* C4 witness: an empty list was formatted under a third label
C4_Witness ==
    /\ pc = "format_returned"
    /\ call_args.results = <<>>
    /\ call_args.source_type = "Other"

\* C5: for a list of n > 0 items the text is the header naming the source
\* followed by exactly n entries, numbered 1..n, entry i showing the score
\* and the content of item i.
C5_FormatEntries ==
    (pc = "format_returned" /\ call_args.results # <<>>) =>
        ListsItems(call_ret, call_args.source_type, call_args.results)

\* C5 witness: two different items were formatted, the first with a score
\* that lies halfway between two thousandths
C5_Witness ==
    /\ pc = "format_returned"
    /\ Len(call_args.results) = 2
    /\ call_args.results[1] = [content |-> [text |-> "doc a"], score |-> 625]
    /\ call_args.results[2] = [score |-> 10000]

\* C6: no retries. No request is issued twice, and a run that returned has
\* issued exactly one retrieval per knowledge base and one model invocation,
\* also when calls raised and both lists are empty.
C6_NoRetries ==
    /\ RetrieveCallsTo(VECTOR_KB_ID) <= 1
    /\ RetrieveCallsTo(GRAPH_KB_ID) <= 1
    /\ InvokeCalls <= 1
    /\ Len(replies) <= Len(calls)
    /\ pc = "returned" =>
        /\ Len(calls) = 3
        /\ RetrieveCallsTo(VECTOR_KB_ID) = 1
        /\ RetrieveCallsTo(GRAPH_KB_ID) = 1
        /\ InvokeCalls = 1

\* C6 witness: both retrievals raised, both lists are empty, the run returned
C6_Witness ==
    /\ pc = "returned"
    /\ replies[1].tag = "raise"
    /\ replies[2].tag = "raise"
    /\ result.vector_results_count = 0
    /\ result.graph_results_count = 0
    /\ InvokeCalls = 1

\* C7: the steps are strictly ordered. At most one external call is in
\* flight; the graph retrieval is issued after the vector retrieval was
\* answered; formatting and the model invocation come after both retrievals
\* were answered; the dict is returned after the model call was answered.
C7_StrictOrder ==
    /\ Cardinality(inflight) <= 1
    /\ Len(calls) = Len(replies) + Cardinality(inflight)
    /\ Len(calls) >= 1 =>
           calls[1].api = "retrieve"
               /\ calls[1].knowledgeBaseId = VECTOR_KB_ID
    /\ Len(calls) >= 2 =>
           /\ Len(replies) >= 1
           /\ calls[2].api = "retrieve"
           /\ calls[2].knowledgeBaseId = GRAPH_KB_ID
    /\ Len(calls) >= 3 => Len(replies) >= 2 /\ calls[3].api = "invoke"
    /\ (vector_context # <<>> \/ graph_context # <<>>
            \/ synthesis_prompt # <<>>) => Len(replies) >= 2
    /\ pc = "returned" => Len(replies) = 3 /\ inflight = {}
    /\ pc # "returned" => result = <<>>

\* C7 witness: the model call is the only one in flight, after two answers
C7_Witness ==
    /\ pc = "generating"
    /\ Len(replies) = 2
    /\ inflight = {InvokeRequest(synthesis_prompt)}

\* C8: when the model invocation raises, the run still returns, with the
\* fixed fallback string as unified_response and the query, both counts and
\* both raw lists as retrieved.
C8_GenerationFailure ==
    (Len(replies) = 3 /\ replies[3].tag = "raise") =>
        /\ pc = "returned"
        /\ unified_response = "Error generating unified response."
        /\ result =
               [query |-> calls[1].retrievalQuery.text,
                vector_results_count |-> Len(ServiceList(replies[1])),
                graph_results_count |-> Len(ServiceList(replies[2])),
                unified_response |-> "Error generating unified response.",
                raw_vector_results |-> ServiceList(replies[1]),
                raw_graph_results |-> ServiceList(replies[2])]

\* C8 witness: the model raised after both knowledge bases gave items
C8_Witness ==
    /\ pc = "returned"
    /\ replies[3].tag = "raise"
    /\ result.vector_results_count = 2
    /\ result.graph_results_count = 1

\* C9: the knowledge bases degrade independently. When one source raised or
\* gave no items, its count is 0, its raw list empty and its block the fixed
\* empty sentence, while the other source keeps its k items, its count k and
\* a block listing the k items.
C9_IndependentDegradation ==
    pc = "returned" =>
        LET v == ServiceList(replies[1])
            g == ServiceList(replies[2])
        IN  /\ v = <<>> =>
                /\ result.vector_results_count = 0
                /\ result.raw_vector_results = <<>>
                /\ vector_context = EmptySentence("Vector")
                /\ result.graph_results_count = Len(g)
                /\ result.raw_graph_results = g
                /\ g # <<>> => ListsItems(graph_context, "Graph", g)
            /\ g = <<>> =>
                /\ result.graph_results_count = 0
                /\ result.raw_graph_results = <<>>
                /\ graph_context = EmptySentence("Graph")
                /\ result.vector_results_count = Len(v)
                /\ result.raw_vector_results = v
                /\ v # <<>> => ListsItems(vector_context, "Vector", v)

\* C9 witness: the vector KB gave two items and the graph KB raised
C9_Witness ==
    /\ pc = "returned"
    /\ Len(ServiceList(replies[1])) = 2
    /\ replies[2].tag = "raise"
    /\ result.vector_results_count = 2
    /\ result.graph_results_count = 0

\* C10: results are never crossed. The first retrieval goes to the vector
\* knowledge-base id and the second to the graph id, both with the query as
\* given; the prompt holds the query, then the vector KB's list formatted
\* under "Vector", then the graph KB's list formatted under "Graph"; the
\* returned dict reports each list under its own source; the two ids never
\* change.
C10_NoCrossing ==
    /\ VECTOR_KB_ID = "KXZ6KMQQUP"
    /\ GRAPH_KB_ID = "9GX3SMFMMH"
    /\ Len(calls) >= 1 =>
           calls[1] = RetrieveRequest(query_text, "KXZ6KMQQUP")
    /\ Len(calls) >= 2 =>
           calls[2] = RetrieveRequest(query_text, "9GX3SMFMMH")
    /\ Len(calls) >= 3 =>
           LET p == calls[3].prompt
               vblock ==
                   format_retrieval_results(ServiceList(replies[1]), "Vector")
               gblock ==
                   format_retrieval_results(ServiceList(replies[2]), "Graph")
           IN  /\ calls[3].api = "invoke"
               /\ \E i \in 1..Len(p) :
                      /\ p[i] = query_text
                      /\ \E j \in (i + 1)..Len(p) :
                             /\ BlockAt(p, j, vblock)
                             /\ \E k \in (j + Len(vblock))..Len(p) :
                                    BlockAt(p, k, gblock)
    /\ pc = "returned" =>
           /\ result.raw_vector_results = ServiceList(replies[1])
           /\ result.vector_results_count = Len(ServiceList(replies[1]))
           /\ result.raw_graph_results = ServiceList(replies[2])
           /\ result.graph_results_count = Len(ServiceList(replies[2]))

\* C10 witness: the two knowledge bases gave different lists
C10_Witness ==
    /\ pc = "returned"
    /\ Len(result.raw_vector_results) = 1
    /\ Len(result.raw_graph_results) = 2
    /\ result.raw_vector_results[1] # result.raw_graph_results[1]

====
